---- MODULE Spec2Model ----
(***************************************************************************)
(* A model of src/main.py, a Streamlit page that loads a fitted            *)
(* scaler + classifier pipeline and renders a prediction.                  *)
(*                                                                         *)
(* Streamlit executes the whole script from its first line on every page   *)
(* load and on every widget interaction (a "run").  One action of the      *)
(* model is one run: PageLoad (a browser opens or reloads the page),       *)
(* EditInput (the user commits a new value in one number input) and        *)
(* ClickPredict (the user presses "Predict Now").                          *)
(*                                                                         *)
(* Numbers.  Input values, coefficients and importances are integers.  A   *)
(* probability is the numerator of a fraction over ProbDen; the risk       *)
(* thresholds 0.8 and 0.5 of the source are compared exactly, as           *)
(* 100 * num >= 80 * ProbDen and 100 * num >= 50 * ProbDen.                *)
(*                                                                         *)
(* The artifact (breast_cancer_pipeline.pkl) is not part of the repository.*)
(* It is drawn in Init from a small set of pipelines: unreadable, fitted   *)
(* without feature names, or a scaler followed by a linear classifier that *)
(* does or does not expose coef_.  predict / predict_proba are the         *)
(* library's: centre the input (scaler), take the linear decision score,   *)
(* label 1 when the score is positive, and a monotone, saturating map of   *)
(* the score to the probability grid with score 0 at one half.             *)
(***************************************************************************)
EXTENDS Integers, Sequences, FiniteSets

\* ------------------------------------------------------------------ bounds
MaxSchema == 3       \* interactive sessions: schemas of 1..MaxSchema features
MaxVal == 1          \* a number input holds a value in -MaxVal..MaxVal
MaxRuns == 5         \* script runs of one process that are explored
ProbHalf == 5        \* the probability grid is 0..2*ProbHalf over 2*ProbHalf
MaxFeatures == 11    \* ranking runs: schemas of MaxFeatures-1 and MaxFeatures

\* ------------------------------------------------------- program constants
TopN == 10           \* .head(10)
HighPct == 80        \* prediction_proba[1] >= 0.8
ModeratePct == 50    \* prediction_proba[1] >= 0.5

ProbDen == 2 * ProbHalf
InputValues == (0 - MaxVal)..MaxVal

VARIABLES
    disk,            \* the artifact file breast_cancer_pipeline.pkl
    tieOrder,        \* how this build's quicksort orders equal keys
    runs,            \* script runs so far in this process
    loads,           \* successful joblib.load calls so far in this process
    pipeline,        \* identity of the object bound to `pipeline` in this run
    widgets,         \* the session's number-input values, by feature name
    untouched,       \* no number input was edited since the page was loaded
    feature_names,   \* the script's feature_names in this run
    user_input,      \* the script's user_input list in this run
    predict_clicked, \* the script's predict_clicked in this run
    ui,              \* what this run put on the page
    memo             \* history: one earlier submission, kept for comparison

vars == <<disk, tieOrder, runs, loads, pipeline, widgets, untouched,
          feature_names, user_input, predict_clicked, ui, memo>>

\* ---------------------------------------------------------------- helpers
Abs(x) == IF x < 0 THEN 0 - x ELSE x
Min(a, b) == IF a < b THEN a ELSE b
Max(a, b) == IF a > b THEN a ELSE b

RECURSIVE SumTo(_, _)
SumTo(f, k) == IF k = 0 THEN 0 ELSE f[k] + SumTo(f, k - 1)

\* ------------------------------------------------------------ the artifact
NoArtifact ==
    [ok |-> FALSE, hasNames |-> FALSE, hasCoef |-> FALSE, n |-> 0,
     names |-> <<>>, mean |-> <<>>, weights |-> <<>>, intercept |-> 0]

\* A fitted pipeline over n features.  Feature names are the integers 1..n.
Fitted(n, hasNames, hasCoef, mean, weights, intercept) ==
    [ok |-> TRUE, hasNames |-> hasNames, hasCoef |-> hasCoef, n |-> n,
     names |-> [i \in 1..n |-> i], mean |-> mean, weights |-> weights,
     intercept |-> intercept]

PipelineA(n) ==
    Fitted(n, TRUE, TRUE,
           [i \in 1..n |-> IF i = 1 THEN 1 ELSE 0],
           [i \in 1..n |-> IF i % 2 = 1 THEN 2 ELSE 0 - 1], 2)

PipelineB(n) ==
    Fitted(n, TRUE, TRUE, [i \in 1..n |-> 0], [i \in 1..n |-> i % 3], 1)

\* A classifier that predicts but exposes no coef_.
PipelineC(n) ==
    Fitted(n, TRUE, FALSE, [i \in 1..n |-> 0], [i \in 1..n |-> 0 - 4], 1)

\* A scaler fitted on a bare array: no feature_names_in_.
PipelineD(n) ==
    Fitted(n, FALSE, TRUE, [i \in 1..n |-> 0], [i \in 1..n |-> 1], 0)

PipelinesOf(n) == {PipelineA(n), PipelineB(n), PipelineC(n)}

Artifacts ==
    {NoArtifact} \cup {PipelineD(n) : n \in 1..MaxSchema}
        \cup UNION {PipelinesOf(n) : n \in 1..MaxSchema}

TieOrders == {"schema", "reverse"}

\* ------------------------------------------------- the pipeline's methods
\* pipeline.named_steps['scaler'].transform followed by the classifier's
\* decision function.
Decision(art, x) ==
    art.intercept
        + SumTo([i \in 1..art.n |-> art.weights[i] * (x[i] - art.mean[i])], art.n)

\* pipeline.predict(input_array)[0]
Predict(art, x) == IF Decision(art, x) > 0 THEN 1 ELSE 0

PredictProbaDrift(art, x) ==
    LET m == Max(0, Min(ProbDen, ProbHalf + Decision(art, x) + (runs % 2)))
    IN  <<ProbDen - m, m>>

\* pipeline.predict_proba(input_array)[0]: <<benign, malignant>> numerators.
PredictProba(art, x) ==
    LET m == Max(0, Min(ProbDen, ProbHalf + Decision(art, x)))
    IN  <<ProbDen - m, m>>

\* ------------------------------------------------------------- the script
\* What a run has put on the page.  A run that raises keeps what it had
\* rendered up to the raising line and shows the error instead of the rest.
BlankPage ==
    [error |-> "none",      \* "load": line 14 raised; "schema": line 122 raised
     title |-> FALSE,       \* st.title in the sidebar
     inputs |-> 0,          \* number inputs offered in the sidebar
     button |-> FALSE,      \* the "Predict Now" button
     label |-> "none",      \* prediction card
     risk |-> "none",       \* risk card, front
     pct |-> 0 - 1,         \* risk card, back: malignant probability
     probChart |-> <<>>,    \* probability bar chart: <<benign, malignant>>
     impHeader |-> FALSE,   \* st.subheader("Top Feature Importance")
     ranking |-> <<>>,      \* importance_df handed to the importance chart
     impChart |-> FALSE,    \* the importance bar chart
     awareness |-> FALSE]   \* the awareness section

\* joblib.load("breast_cancer_pipeline.pkl"): raises unless the file loads.
JoblibLoad(file) == [raised |-> ~file.ok, value |-> file]

FeatureNamesGuessed(art) ==
    [raised |-> FALSE, value |-> [i \in 1..art.n |-> i]]

\* pipeline.named_steps['scaler'].feature_names_in_: an AttributeError when
\* the scaler was fitted without feature names.
FeatureNamesIn(art) ==
    IF art.hasNames THEN [raised |-> FALSE, value |-> art.names]
    ELSE [raised |-> TRUE, value |-> <<>>]

\* st.number_input(f"{feature}", value=0.0, format="%.5f"): the session's
\* value for the widget of that name, 0.0 when the session has none.  The
\* format string affects the display only.
NumberInput(w, feature) == IF feature \in DOMAIN w THEN w[feature] ELSE 0

CollectInputsReversed(names, w) ==
    [i \in 1..Len(names) |-> NumberInput(w, names[Len(names) + 1 - i])]

\* user_input = []; for feature in feature_names: user_input.append(val)
CollectInputs(names, w) ==
    [i \in 1..Len(names) |-> NumberInput(w, names[i])]

LabelText(prediction) == IF prediction = 1 THEN "Malignant" ELSE "Benign"

RiskTextStrict(p) ==
    IF 100 * p > HighPct * ProbDen THEN "High Risk"
    ELSE IF 100 * p > ModeratePct * ProbDen THEN "Moderate Risk"
    ELSE "Low Risk"

\* risk_text, from the malignant probability p / ProbDen.
RiskText(p) ==
    IF 100 * p >= HighPct * ProbDen THEN "High Risk"
    ELSE IF 100 * p >= ModeratePct * ProbDen THEN "Moderate Risk"
    ELSE "Low Risk"

ImportanceAbs(coefs, x) == [i \in 1..Len(coefs) |-> Abs(coefs[i] * x[i])]

\* coefs * input_array[0]
Importance(coefs, x) == [i \in 1..Len(coefs) |-> coefs[i] * x[i]]

\* importance_df before sorting: one row per feature, in schema order.
ImportanceRows(names, imp) ==
    [i \in 1..Len(names) |->
        [Feature |-> names[i], Importance |-> imp[i],
         AbsImportance |-> Abs(imp[i])]]

\* Row i is placed before row j by sort_values(by='AbsImportance',
\* ascending=False).  kind is left at its default, quicksort, which does not
\* define the order of rows with equal keys: tieOrder is one of the
\* resolutions a build can produce ("schema": equal keys stay in row order,
\* as when the rows are few enough for the insertion-sort path; "reverse":
\* equal keys come out in the opposite order).
Before(rows, i, j) ==
    \/ rows[i].AbsImportance > rows[j].AbsImportance
    \/ /\ rows[i].AbsImportance = rows[j].AbsImportance
       /\ IF tieOrder = "schema" THEN i < j ELSE i > j

\* importance_df.sort_values(by='AbsImportance', ascending=False)
SortValues(rows) ==
    [k \in 1..Len(rows) |->
        rows[CHOOSE i \in 1..Len(rows) :
                Cardinality({j \in 1..Len(rows) : Before(rows, j, i)}) = k - 1]]

HeadLast(rows) == SubSeq(rows, Max(1, Len(rows) - TopN + 1), Len(rows))

\* .head(10)
HeadTop(rows) == SubSeq(rows, 1, Min(TopN, Len(rows)))

\* Lines 132-202: what a run adds to the page below the sidebar.
OutputsSticky(clicked, art, names, x) ==
    IF clicked
    THEN [label |-> LabelText(Predict(art, x)),
          risk |-> RiskText(PredictProba(art, x)[2]),
          pct |-> PredictProba(art, x)[2],
          probChart |-> PredictProba(art, x),
          impHeader |-> TRUE,
          ranking |-> IF art.hasCoef
                      THEN HeadTop(SortValues(ImportanceRows(names,
                                         Importance(art.weights, x))))
                      ELSE <<>>,
          impChart |-> art.hasCoef]
    ELSE [label |-> ui.label, risk |-> ui.risk, pct |-> ui.pct,
          probChart |-> ui.probChart, impHeader |-> ui.impHeader,
          ranking |-> ui.ranking, impChart |-> ui.impChart]

Outputs(clicked, art, names, x) ==
    IF clicked
    THEN [label |-> LabelText(Predict(art, x)),
          risk |-> RiskText(PredictProba(art, x)[2]),
          pct |-> PredictProba(art, x)[2],
          probChart |-> PredictProba(art, x),
          impHeader |-> TRUE,
          ranking |-> IF art.hasCoef
                      THEN HeadTop(SortValues(ImportanceRows(names,
                                         Importance(art.weights, x))))
                      ELSE <<>>,
          impChart |-> art.hasCoef]
    ELSE [label |-> "none", risk |-> "none", pct |-> 0 - 1,
          probChart |-> <<>>, impHeader |-> FALSE,
          ranking |-> <<>>, impChart |-> FALSE]

\* The page of a run that reaches the last line of the script.
Page(names, out) ==
    [error |-> "none", title |-> TRUE, inputs |-> Len(names), button |-> TRUE,
     label |-> out.label, risk |-> out.risk, pct |-> out.pct,
     probChart |-> out.probChart, impHeader |-> out.impHeader,
     ranking |-> out.ranking, impChart |-> out.impChart,
     awareness |-> TRUE]

\* What is kept of a submission for later comparison.
Remembered(x, page) ==
    [input |-> x, label |-> page.label, risk |-> page.risk,
     probChart |-> page.probChart, ranking |-> page.ranking, current |-> TRUE]

NoMemo ==
    [input |-> <<>>, label |-> "none", risk |-> "none", probChart |-> <<>>,
     ranking |-> <<>>, current |-> FALSE]

\* One run of the script, top to bottom, with the session's widget values w
\* and the button pressed or not.  keep is the history choice: whether this
\* submission becomes the remembered one.
Script(w, clicked, keep) ==
    LET loaded == JoblibLoad(disk)
        schema == FeatureNamesIn(loaded.value)
        x      == CollectInputs(schema.value, w)
        page   == Page(schema.value, Outputs(clicked, loaded.value, schema.value, x))
    IN  /\ runs' = runs + 1
        /\ UNCHANGED <<disk, tieOrder>>
        /\ IF loaded.raised
           THEN /\ loads' = loads
                /\ pipeline' = 0
                /\ widgets' = <<>>
                /\ feature_names' = <<>>
                /\ user_input' = <<>>
                /\ predict_clicked' = FALSE
                /\ ui' = [BlankPage EXCEPT !.error = "load"]
                /\ memo' = [memo EXCEPT !.current = FALSE]
           ELSE /\ loads' = loads + 1
                /\ pipeline' = loads + 1
                /\ IF schema.raised
                   THEN /\ widgets' = <<>>
                        /\ feature_names' = <<>>
                        /\ user_input' = <<>>
                        /\ predict_clicked' = FALSE
                        /\ ui' = [BlankPage EXCEPT !.error = "schema", !.title = TRUE]
                        /\ memo' = [memo EXCEPT !.current = FALSE]
                   ELSE /\ widgets' = [f \in {schema.value[i] : i \in 1..Len(schema.value)}
                                          |-> NumberInput(w, f)]
                        /\ feature_names' = schema.value
                        /\ user_input' = x
                        /\ predict_clicked' = clicked
                        /\ ui' = page
                        /\ memo' = IF clicked /\ keep
                                   THEN Remembered(x, page)
                                   ELSE [memo EXCEPT !.current = FALSE]

\* ------------------------------------------------------------------ actions
\* A browser opens or reloads the page: a new session, every widget at its
\* default, and a run of the script.
PageLoad ==
    /\ runs < MaxRuns
    /\ untouched' = TRUE
    /\ Script(<<>>, FALSE, FALSE)

\* The user commits value v in the number input of feature f: a run with the
\* button not pressed.
EditInput(f, v) ==
    /\ runs < MaxRuns
    /\ ui.inputs > 0
    /\ f \in DOMAIN widgets
    /\ widgets[f] # v
    /\ untouched' = FALSE
    /\ Script([widgets EXCEPT ![f] = v], FALSE, FALSE)

\* The user presses "Predict Now": a run with predict_clicked true.
Submit(keep) ==
    /\ ui.button
    /\ UNCHANGED untouched
    /\ Script(widgets, TRUE, keep)

ClickPredict ==
    /\ runs < MaxRuns
    /\ \E keep \in BOOLEAN : Submit(keep)

Init ==
    /\ disk \in Artifacts
    /\ tieOrder \in TieOrders
    /\ runs = 0
    /\ loads = 0
    /\ pipeline = 0
    /\ widgets = <<>>
    /\ untouched = TRUE
    /\ feature_names = <<>>
    /\ user_input = <<>>
    /\ predict_clicked = FALSE
    /\ ui = BlankPage
    /\ memo = NoMemo

Next ==
    \/ PageLoad
    \/ \E f \in 1..MaxSchema, v \in InputValues : EditInput(f, v)
    \/ ClickPredict

Spec == Init /\ [][Next]_vars

\* ---------------------------------------------------- ranking submissions
\* The importance ranking on schemas around the top-10 cut: the page as it
\* stands after the user has filled the form (a page load and one edit per
\* non-default input), and the submission of that form.
RankFeatureCounts == {MaxFeatures - 1, MaxFeatures}

RankArtifacts == UNION {PipelinesOf(n) : n \in RankFeatureCounts}

RankInputs(n) == [1..n -> {0, 1}] \cup [1..n -> {0 - 1, 0}]

InitRank ==
    /\ disk \in RankArtifacts
    /\ tieOrder \in TieOrders
    /\ widgets \in RankInputs(disk.n)
    /\ runs = 1 + Cardinality({f \in 1..disk.n : widgets[f] # 0})
    /\ loads = runs
    /\ pipeline = runs
    /\ untouched = (runs = 1)
    /\ feature_names = disk.names
    /\ user_input = CollectInputs(disk.names, widgets)
    /\ predict_clicked = FALSE
    /\ ui = Page(disk.names, Outputs(FALSE, disk, disk.names, user_input))
    /\ memo = NoMemo

RankSubmit ==
    /\ ~predict_clicked
    /\ Submit(FALSE)

NextRank == RankSubmit

SpecRank == InitRank /\ [][NextRank]_vars

\* ================================================================== claims
Rendered == predict_clicked /\ ui.error = "none"

HasOutputs ==
    \/ ui.label # "none"
    \/ ui.risk # "none"
    \/ ui.pct # 0 - 1
    \/ ui.probChart # <<>>
    \/ ui.impHeader
    \/ ui.ranking # <<>>
    \/ ui.impChart

\* The value the user has entered for the feature at schema position i.
Entered(i) == widgets[feature_names[i]]

\* C1: the risk tier shown for a submission is "High Risk" exactly when the
\* malignant probability p is at least 0.8, "Moderate Risk" exactly when
\* 0.5 <= p < 0.8 and "Low Risk" exactly when p < 0.5; every rendered
\* prediction has one of the three tiers.
RiskTierPartition ==
    Rendered =>
        /\ ui.pct \in 0..ProbDen
        /\ ui.risk \in {"High Risk", "Moderate Risk", "Low Risk"}
        /\ (ui.risk = "High Risk") <=> (5 * ui.pct >= 4 * ProbDen)
        /\ (ui.risk = "Moderate Risk")
              <=> (2 * ui.pct >= ProbDen /\ 5 * ui.pct < 4 * ProbDen)
        /\ (ui.risk = "Low Risk") <=> (2 * ui.pct < ProbDen)

\* A submission whose malignant probability is exactly 0.8 is shown as High.
RiskBoundaryHigh ==
    Rendered /\ 5 * ui.pct = 4 * ProbDen /\ ui.risk = "High Risk"

\* C2: the ranking of a submission has at most 10 entries, exactly
\* min(10, number of features) when the classifier exposes coefficients, no
\* feature twice, in non-increasing order of absolute importance, and no
\* omitted feature is strictly more important than a kept one; without
\* coefficients the ranking is empty, the chart is skipped and the run
\* still completes.
RankingTopTen ==
    Rendered =>
        LET r    == ui.ranking
            n    == Len(feature_names)
            kept == {r[k].Feature : k \in 1..Len(r)}
        IN  /\ Len(r) <= 10
            /\ Cardinality(kept) = Len(r)
            /\ disk.hasCoef => (Len(r) = Min(10, n) /\ ui.impChart)
            /\ \A k \in 1..(Len(r) - 1) :
                  Abs(r[k].Importance) >= Abs(r[k + 1].Importance)
            /\ \A i \in 1..n : feature_names[i] \notin kept =>
                  \A k \in 1..Len(r) :
                      Abs(disk.weights[i] * Entered(i)) <= Abs(r[k].Importance)
            /\ ~disk.hasCoef =>
                  /\ r = <<>>
                  /\ ~ui.impChart
                  /\ ui.label # "none"
                  /\ ui.probChart # <<>>
                  /\ ui.awareness

\* A submission over more than 10 features whose kept entries differ in
\* magnitude and whose omitted feature has a non-zero importance.
RankingCutApplied ==
    /\ Rendered
    /\ Len(feature_names) > 10
    /\ Len(ui.ranking) = 10
    /\ Abs(ui.ranking[1].Importance) > Abs(ui.ranking[10].Importance)
    /\ \E i \in 1..Len(feature_names) :
          /\ feature_names[i] \notin {ui.ranking[k].Feature : k \in 1..10}
          /\ disk.weights[i] * Entered(i) # 0

\* C3: every entry of the ranking carries, under its feature's name, the
\* coefficient at that feature's schema position times the value entered at
\* that position, sign included.
ImportanceSigned ==
    Rendered =>
        \A k \in 1..Len(ui.ranking) :
            \E i \in 1..Len(feature_names) :
                /\ feature_names[i] = ui.ranking[k].Feature
                /\ ui.ranking[k].Importance = disk.weights[i] * Entered(i)

\* A negative importance ranked first, ahead of a smaller positive one.
NegativeRankedFirst ==
    /\ Rendered
    /\ Len(ui.ranking) = 2
    /\ ui.ranking[1].Importance < 0
    /\ ui.ranking[2].Importance > 0
    /\ Abs(ui.ranking[1].Importance) > ui.ranking[2].Importance

\* C4: two entries of the ranking with equal absolute importance appear in
\* schema order.
StableTies ==
    Rendered =>
        \A k \in 1..(Len(ui.ranking) - 1) :
            Abs(ui.ranking[k].Importance) = Abs(ui.ranking[k + 1].Importance)
                => ui.ranking[k].Feature < ui.ranking[k + 1].Feature

\* C6: the artifact is loaded from disk exactly once in a process, and every
\* prediction uses that one loaded object.
LoadedOnce ==
    /\ loads <= 1
    /\ Rendered => pipeline = 1

\* C7: in a run where the artifact does not load or the scaler has no
\* feature names, no input form, no submit button and no prediction output
\* is on the page.
FatalHaltsBeforeForm ==
    (runs > 0 /\ (~disk.ok \/ ~disk.hasNames)) =>
        /\ ui.error # "none"
        /\ ui.inputs = 0
        /\ ~ui.button
        /\ ~predict_clicked
        /\ ~HasOutputs

\* A run that loaded the artifact and halted on the missing feature names.
SchemaMissingRun ==
    runs > 0 /\ disk.ok /\ ~disk.hasNames /\ ui.error = "schema" /\ loads > 0

\* C8: the vector handed to the prediction step has one value per schema
\* feature, in schema order: position i holds the value entered for feature
\* name i, which is 0 when no input was edited.
VectorMatchesSchema ==
    Rendered =>
        /\ Len(user_input) = Len(feature_names)
        /\ Len(feature_names) = disk.n
        /\ ui.inputs = Len(feature_names)
        /\ \A i \in 1..Len(feature_names) : user_input[i] = Entered(i)
        /\ untouched => \A i \in 1..Len(user_input) : user_input[i] = 0

\* A submission of two different non-default values.
VectorTwoValues ==
    /\ Rendered
    /\ Len(user_input) = 2
    /\ user_input[1] # 0
    /\ user_input[2] # 0
    /\ user_input[1] # user_input[2]

OutputsFollowSubmit ==
    /\ ~predict_clicked => ~HasOutputs
    /\ Rendered =>
          LET x == [i \in 1..Len(feature_names) |-> Entered(i)]
          IN  /\ ui.label = LabelText(Predict(disk, x))
              /\ ui.probChart = PredictProba(disk, x)
              /\ ui.pct = PredictProba(disk, x)[2]

\* C10 as stated: prediction outputs only in a run with the button pressed,
\* computed from that run's form values, and the awareness section in
\* every run.
OutputsOnlyOnSubmitEveryRun ==
    /\ OutputsFollowSubmit
    /\ runs > 0 => ui.awareness

\* C10 amended: prediction outputs only in a run with the button pressed,
\* computed from that run's form values, and the awareness section in
\* every run that is not halted by a failed artifact load or a missing
\* feature-name schema.
OutputsOnlyOnSubmit ==
    /\ OutputsFollowSubmit
    /\ (runs > 0 /\ ui.error = "none") => ui.awareness

\* An input edit after a prediction: the outputs are gone, the awareness
\* section is there.
EditAfterPrediction ==
    /\ runs > 0
    /\ ~predict_clicked
    /\ ~untouched
    /\ memo.label # "none"
    /\ ~HasOutputs
    /\ ui.awareness

====
